---- MODULE Spec2Model ----
(***************************************************************************)
(* Model of src/src/lib.rs: the HTIF (Host Target Interface) console       *)
(* driver.  Two memory-mapped 64-bit registers, tohost and fromhost, are   *)
(* accessed with volatile stores and loads by HTIF::send_byte and          *)
(* HTIF::read_byte.  Every volatile access is one step of the model, so    *)
(* that accesses of two callers can interleave.                            *)
(*                                                                         *)
(* TLC's integers are 32 bits wide, so a u64 is modelled as a function     *)
(* from bit positions 0..63 to {0,1}; shifts, ors and masks are computed   *)
(* bit by bit as the hardware computes them.                               *)
(***************************************************************************)
EXTENDS Integers, Sequences, FiniteSets, TLC

VARIABLES
    tohost,      \* the extern static mut tohost: u64
    fromhost,    \* the extern static fromhost: u64
    htif,        \* htif[c]: the HTIF handle caller c holds
    pc,          \* pc[c]: where caller c is inside a call
    op,          \* op[c]: the method caller c is (or was last) executing
    to_send,     \* to_send[c]: the argument of send_byte
    val,         \* val[c]: the argument of write_to_host
    i,           \* i[c]: the delay loop's iteration count
    ret,         \* ret[c]: the value the call returned
    acc,         \* acc[c]: the register accesses of the current call, in order
    last,        \* who wrote tohost last, and for which method
    sinceWrite,  \* number of fromhost reads since the last write of tohost
    gap,         \* at the last write of tohost: the previous request and the
                 \* number of fromhost reads that followed it
    reqAtRead,   \* reqAtRead[c]: content and writer of tohost when c read fromhost
    serialized   \* whether the embedding serializes calls externally

vars == <<tohost, fromhost, htif, pc, op, to_send, val, i, ret, acc, last,
          sinceWrite, gap, reqAtRead, serialized>>

-----------------------------------------------------------------------------
(* Bounds of the model *)

\* number of distinct patterns of the high bits (63-8) of a response word,
\* beyond the all-zero pattern
MaxHigh == 1

\* cap of the ghost counter sinceWrite
CountCap == 3

Callers == {"A", "B"}

\* arguments of send_byte that are tried: 0x00, 0x41, 0xFF
SendBytes == {0, 65, 255}

\* low bytes of the response words the host provides: 0x00, 0x58
RespLow == {0, 88}

\* when calls are not serialized: the caller that issues read_byte (the
\* other issues send_byte), and the bytes that are sent
RaceReader == "A"
RaceBytes == {65}

-----------------------------------------------------------------------------
(* 64-bit words *)

BitPos == 0..63

ZeroWord == [k \in BitPos |-> 0]

\* 2^k for the small k the model needs
RECURSIVE Pow2(_)
Pow2(k) == IF k = 0 THEN 1 ELSE 2 * Pow2(k - 1)

\* `n as u64` for a value n below 2^31: zero extension
U64(n) == [k \in BitPos |-> IF k < 31 THEN (n \div Pow2(k)) % 2 ELSE 0]

\* a << s on u64
Shl(a, s) == [k \in BitPos |-> IF k >= s THEN a[k - s] ELSE 0]

\* a | b on u64
BitOr(a, b) == [k \in BitPos |-> IF a[k] = 1 \/ b[k] = 1 THEN 1 ELSE 0]

\* a & b on u64
BitAnd(a, b) == [k \in BitPos |-> IF a[k] = 1 /\ b[k] = 1 THEN 1 ELSE 0]

\* `w as u8`: truncation to the low eight bits
RECURSIVE LowBits(_, _)
LowBits(w, n) == IF n = 0 THEN 0 ELSE w[0] + 2 * LowBits([k \in BitPos |-> IF k < 63 THEN w[k + 1] ELSE 0], n - 1)

AsU8(w) == LowBits(w, 8)

-----------------------------------------------------------------------------
(* Constants of the source *)

REG_TOTAL_SIZE_OneWord == 1 * 8

\* total register size is 2 x 8-byte words
REG_TOTAL_SIZE == 2 * 8

DEVICE_SHIFT == 56
DEVICE_CHARIO == 1

COMMAND_SHIFT == 48
COMMAND_READ_CHAR == 0
COMMAND_WRITE_CHAR == 1

DELAY_LOOP_END_Short == 100 - 1

\* the end of the delay loop's range, for _ in 0..100
DELAY_LOOP_END == 100

\* the mask 0xff of send_byte and read_byte
BYTE_MASK == 255

\* enum Fault { Success }
Fault == {"Success"}

\* struct HTIF {}: a structure with no fields
HTIF == [f \in {} |-> 0]

\* Values returned by the methods.  The payload v of a result is a tuple:
\* empty for () and for HTIF {}, of one number for a u8 or a usize.
Unit == <<>>
Num(n) == <<n>>
Ok(v) == [tag |-> "Ok", v |-> v, e |-> "none"]
Err(e) == [tag |-> "Err", v |-> <<>>, e |-> e]
\* a value that is not a Result
Plain(v) == [tag |-> "plain", v |-> v, e |-> "none"]
NoRet == [tag |-> "none", v |-> <<>>, e |-> "none"]

-----------------------------------------------------------------------------
(* Response words the host may place in fromhost *)

\* pattern h of the bits 63-8: none for h = 0, else bits 7+h and 64-h
HighPattern(h) == [k \in BitPos |-> IF h > 0 /\ (k = 7 + h \/ k = 64 - h) THEN 1 ELSE 0]

RespWords == {BitOr(U64(lo), HighPattern(h)) : lo \in RespLow, h \in 0..MaxHigh}

-----------------------------------------------------------------------------
(* The request words and results, computed as the methods compute them *)

SendByteWord_CommandAtDeviceShift(b) ==
    LET device == Shl(U64(DEVICE_CHARIO), DEVICE_SHIFT)
        command == Shl(U64(COMMAND_WRITE_CHAR), DEVICE_SHIFT)
        byte == BitAnd(U64(b), U64(BYTE_MASK))
    IN  BitOr(BitOr(device, command), byte)

SendByteWord_ByteInHighPayload(b) ==
    LET device == Shl(U64(DEVICE_CHARIO), DEVICE_SHIFT)
        command == Shl(U64(COMMAND_WRITE_CHAR), COMMAND_SHIFT)
        byte == Shl(BitAnd(U64(b), U64(BYTE_MASK)), 40)
    IN  BitOr(BitOr(device, command), byte)

\* send_byte: device | command | byte
SendByteWord(b) ==
    LET device == Shl(U64(DEVICE_CHARIO), DEVICE_SHIFT)
        command == Shl(U64(COMMAND_WRITE_CHAR), COMMAND_SHIFT)
        byte == BitAnd(U64(b), U64(BYTE_MASK))
    IN  BitOr(BitOr(device, command), byte)

ReadByteWord_WriteCommand ==
    LET device == Shl(U64(DEVICE_CHARIO), DEVICE_SHIFT)
        command == Shl(U64(COMMAND_WRITE_CHAR), COMMAND_SHIFT)
    IN  BitOr(device, command)

\* read_byte: device | command
ReadByteWord ==
    LET device == Shl(U64(DEVICE_CHARIO), DEVICE_SHIFT)
        command == Shl(U64(COMMAND_READ_CHAR), COMMAND_SHIFT)
    IN  BitOr(device, command)

SendByteResult_Err == Err("Success")

\* send_byte: Ok(())
SendByteResult == Ok(Unit)

ReadByteResult_SecondByte(v) ==
    Ok(Num(AsU8(BitAnd([k \in BitPos |-> IF k < 56 THEN v[k + 8] ELSE 0], U64(BYTE_MASK)))))

\* read_byte: Ok((self.read_from_host() & 0xff) as u8)
ReadByteResult(v) == Ok(Num(AsU8(BitAnd(v, U64(BYTE_MASK)))))

\* size: REG_TOTAL_SIZE
SizeResult == Plain(Num(REG_TOTAL_SIZE))

\* new: Ok( HTIF {} )
NewResult == Ok(HTIF)

WriteVolatile_Elided(old, v) == old

WriteVolatile_OrIntoOld(old, v) == BitOr(old, v)

\* write_volatile(&mut tohost, val): the content of the register afterwards
WriteVolatile(old, v) == v

ReadsResponse_Always(o) == TRUE

\* whether method o calls read_from_host after write_to_host has returned
ReadsResponse(o) == o = "read_byte"

-----------------------------------------------------------------------------
(* The log of a call's register accesses.  Consecutive reads of tohost are *)
(* kept as one entry with their number; their values are discarded by the  *)
(* code and are not logged.                                                *)

LogWrite(log, w) == Append(log, [kind |-> "write_tohost", n |-> 1, val |-> w])

LogDelayRead(log) ==
    IF Len(log) > 0 /\ log[Len(log)].kind = "read_tohost"
    THEN [log EXCEPT ![Len(log)].n = @ + 1]
    ELSE Append(log, [kind |-> "read_tohost", n |-> 1, val |-> ZeroWord])

LogResponse(log, v) == Append(log, [kind |-> "read_fromhost", n |-> 1, val |-> v])

Min(a, b) == IF a < b THEN a ELSE b

-----------------------------------------------------------------------------
(* The embedding: who may start a call *)

InCall(c) == pc[c] # "idle"

\* external serialization: a call starts only when no other call is in
\* progress.  The driver itself has no such check.
CanEnter(c) == pc[c] = "idle" /\ (serialized => \A d \in Callers : ~InCall(d))

\* the calls that are issued when calls are not serialized
MayIssue(c, o, b) ==
    \/ serialized
    \/ o = "read_byte" /\ c = RaceReader
    \/ o = "send_byte" /\ c # RaceReader /\ b \in RaceBytes

Locals == <<op, to_send, val, i, ret, acc, reqAtRead>>
Ghosts == <<last, sinceWrite, gap>>

TypeOK ==
    /\ tohost \in [BitPos -> {0, 1}]
    /\ fromhost \in RespWords
    /\ pc \in [Callers -> {"idle", "write", "loop", "after_write", "done"}]
    /\ op \in [Callers -> {"none", "new", "size", "send_byte", "read_byte"}]
    /\ i \in [Callers -> 0..DELAY_LOOP_END]
    /\ sinceWrite \in 0..CountCap
    /\ serialized \in BOOLEAN

Init ==
    /\ tohost = ZeroWord
    /\ fromhost \in RespWords
    /\ htif = [c \in Callers |-> HTIF]
    /\ pc = [c \in Callers |-> "idle"]
    /\ op = [c \in Callers |-> "none"]
    /\ to_send = [c \in Callers |-> 0]
    /\ val = [c \in Callers |-> ZeroWord]
    /\ i = [c \in Callers |-> 0]
    /\ ret = [c \in Callers |-> NoRet]
    /\ acc = [c \in Callers |-> <<>>]
    /\ last = [by |-> "none", op |-> "none"]
    /\ sinceWrite = 0
    /\ gap = [op |-> "none", reads |-> 0]
    /\ reqAtRead = [c \in Callers |-> [by |-> "none", word |-> ZeroWord]]
    /\ serialized = TRUE

\* as Init, with or without external serialization
InitRace ==
    /\ tohost = ZeroWord
    /\ fromhost \in RespWords
    /\ htif = [c \in Callers |-> HTIF]
    /\ pc = [c \in Callers |-> "idle"]
    /\ op = [c \in Callers |-> "none"]
    /\ to_send = [c \in Callers |-> 0]
    /\ val = [c \in Callers |-> ZeroWord]
    /\ i = [c \in Callers |-> 0]
    /\ ret = [c \in Callers |-> NoRet]
    /\ acc = [c \in Callers |-> <<>>]
    /\ last = [by |-> "none", op |-> "none"]
    /\ sinceWrite = 0
    /\ gap = [op |-> "none", reads |-> 0]
    /\ reqAtRead = [c \in Callers |-> [by |-> "none", word |-> ZeroWord]]
    /\ serialized \in BOOLEAN

-----------------------------------------------------------------------------
(* The methods of HTIF *)

\* HTIF::new
New(c) ==
    /\ CanEnter(c)
    /\ MayIssue(c, "new", 0)
    /\ htif' = [htif EXCEPT ![c] = NewResult.v]
    /\ pc' = [pc EXCEPT ![c] = "done"]
    /\ op' = [op EXCEPT ![c] = "new"]
    /\ ret' = [ret EXCEPT ![c] = NewResult]
    /\ acc' = [acc EXCEPT ![c] = <<>>]
    /\ UNCHANGED <<tohost, fromhost, to_send, val, i, reqAtRead, serialized>>
    /\ UNCHANGED Ghosts

\* HTIF::size
Size(c) ==
    /\ CanEnter(c)
    /\ MayIssue(c, "size", 0)
    /\ pc' = [pc EXCEPT ![c] = "done"]
    /\ op' = [op EXCEPT ![c] = "size"]
    /\ ret' = [ret EXCEPT ![c] = SizeResult]
    /\ acc' = [acc EXCEPT ![c] = <<>>]
    /\ UNCHANGED <<tohost, fromhost, htif, to_send, val, i, reqAtRead, serialized>>
    /\ UNCHANGED Ghosts

\* HTIF::send_byte up to its call of write_to_host
SendByte(c, b) ==
    /\ CanEnter(c)
    /\ MayIssue(c, "send_byte", b)
    /\ pc' = [pc EXCEPT ![c] = "write"]
    /\ op' = [op EXCEPT ![c] = "send_byte"]
    /\ to_send' = [to_send EXCEPT ![c] = b]
    /\ val' = [val EXCEPT ![c] = SendByteWord(b)]
    /\ acc' = [acc EXCEPT ![c] = <<>>]
    /\ UNCHANGED <<tohost, fromhost, htif, i, ret, reqAtRead, serialized>>
    /\ UNCHANGED Ghosts

\* HTIF::read_byte up to its call of write_to_host
ReadByte(c) ==
    /\ CanEnter(c)
    /\ MayIssue(c, "read_byte", 0)
    /\ pc' = [pc EXCEPT ![c] = "write"]
    /\ op' = [op EXCEPT ![c] = "read_byte"]
    /\ val' = [val EXCEPT ![c] = ReadByteWord]
    /\ acc' = [acc EXCEPT ![c] = <<>>]
    /\ UNCHANGED <<tohost, fromhost, htif, to_send, i, ret, reqAtRead, serialized>>
    /\ UNCHANGED Ghosts

\* HTIF::write_to_host: the volatile store to tohost
WriteToHost(c) ==
    /\ pc[c] = "write"
    /\ tohost' = WriteVolatile(tohost, val[c])
    /\ acc' = [acc EXCEPT ![c] = LogWrite(@, tohost')]
    /\ i' = [i EXCEPT ![c] = 0]
    /\ pc' = [pc EXCEPT ![c] = "loop"]
    /\ last' = [by |-> c, op |-> op[c]]
    /\ gap' = [op |-> last.op, reads |-> sinceWrite]
    /\ sinceWrite' = 0
    /\ UNCHANGED <<fromhost, htif, op, to_send, val, ret, reqAtRead, serialized>>

\* HTIF::write_to_host: one iteration of the delay loop, a volatile load of
\* tohost whose value is dropped
DelayLoopRead(c) ==
    /\ pc[c] = "loop"
    /\ i[c] < DELAY_LOOP_END
    /\ i' = [i EXCEPT ![c] = @ + 1]
    /\ acc' = [acc EXCEPT ![c] = LogDelayRead(@)]
    /\ UNCHANGED <<tohost, fromhost, htif, pc, op, to_send, val, ret, reqAtRead, serialized>>
    /\ UNCHANGED Ghosts

\* HTIF::write_to_host: the range of the delay loop is exhausted and the
\* function returns to send_byte or read_byte
DelayLoopExit(c) ==
    /\ pc[c] = "loop"
    /\ i[c] >= DELAY_LOOP_END
    /\ pc' = [pc EXCEPT ![c] = "after_write"]
    /\ UNCHANGED <<tohost, fromhost, htif, op, to_send, val, i, ret, acc, reqAtRead, serialized>>
    /\ UNCHANGED Ghosts

\* HTIF::send_byte after write_to_host: Ok(())
SendByteReturn(c) ==
    /\ pc[c] = "after_write"
    /\ ~ReadsResponse(op[c])
    /\ ret' = [ret EXCEPT ![c] = SendByteResult]
    /\ pc' = [pc EXCEPT ![c] = "done"]
    /\ UNCHANGED <<tohost, fromhost, htif, op, to_send, val, i, acc, reqAtRead, serialized>>
    /\ UNCHANGED Ghosts

\* HTIF::read_byte after write_to_host: read_from_host, the volatile load of
\* fromhost, and the result made of it
ReadFromHost(c) ==
    /\ pc[c] = "after_write"
    /\ ReadsResponse(op[c])
    /\ ret' = [ret EXCEPT ![c] = ReadByteResult(fromhost)]
    /\ acc' = [acc EXCEPT ![c] = LogResponse(@, fromhost)]
    /\ reqAtRead' = [reqAtRead EXCEPT ![c] = [by |-> last.by, word |-> tohost]]
    /\ sinceWrite' = Min(sinceWrite + 1, CountCap)
    /\ pc' = [pc EXCEPT ![c] = "done"]
    /\ UNCHANGED <<tohost, fromhost, htif, op, to_send, val, i, last, gap, serialized>>

\* the caller takes the result: the call is complete
Return(c) ==
    /\ pc[c] = "done"
    /\ pc' = [pc EXCEPT ![c] = "idle"]
    /\ op' = [op EXCEPT ![c] = "none"]
    /\ to_send' = [to_send EXCEPT ![c] = 0]
    /\ val' = [val EXCEPT ![c] = ZeroWord]
    /\ i' = [i EXCEPT ![c] = 0]
    /\ ret' = [ret EXCEPT ![c] = NoRet]
    /\ acc' = [acc EXCEPT ![c] = <<>>]
    /\ reqAtRead' = [reqAtRead EXCEPT ![c] = [by |-> "none", word |-> ZeroWord]]
    /\ UNCHANGED <<tohost, fromhost, htif, serialized>>
    /\ UNCHANGED Ghosts

\* the simulator places a response word in fromhost
HostRespond(w) ==
    /\ w # fromhost
    /\ fromhost' = w
    /\ UNCHANGED <<tohost, htif, pc, serialized>>
    /\ UNCHANGED Locals
    /\ UNCHANGED Ghosts

\* one step of caller c inside a call
Step(c) ==
    \/ WriteToHost(c)
    \/ DelayLoopRead(c)
    \/ DelayLoopExit(c)
    \/ SendByteReturn(c)
    \/ ReadFromHost(c)

Next ==
    \/ \E c \in Callers : New(c)
    \/ \E c \in Callers : Size(c)
    \/ \E c \in Callers, b \in SendBytes : SendByte(c, b)
    \/ \E c \in Callers : ReadByte(c)
    \/ \E c \in Callers : Step(c)
    \/ \E c \in Callers : Return(c)
    \/ \E w \in RespWords : HostRespond(w)

\* the values of a u8
AllBytes == 0..255

\* no request has been written yet
FirstCall == last.by = "none" /\ \A c \in Callers : pc[c] = "idle"

\* a first call, by one caller, of send_byte with any byte or of read_byte
NextOneCall ==
    \/ \E b \in AllBytes : FirstCall /\ SendByte(RaceReader, b)
    \/ FirstCall /\ ReadByte(RaceReader)
    \/ Step(RaceReader)
    \/ \E w \in RespWords : HostRespond(w)

SpecOneCall == Init /\ [][NextOneCall]_vars

\* calls are serialized by the embedding
Spec == Init /\ [][Next]_vars

\* calls are serialized or not
SpecRace == InitRace /\ [][Next]_vars

\* a caller inside a call keeps running
FairSpec == Init /\ [][Next]_vars /\ \A c \in Callers : WF_vars(Step(c))

-----------------------------------------------------------------------------
(* Vocabulary of the properties *)

\* the word whose bytes, most significant first, are bs
WordOfBytes(bs) == [k \in BitPos |-> (bs[8 - (k \div 8)] \div Pow2(k % 8)) % 2]

\* the value of the bit field of w that starts at bit lo and is width wide
RECURSIVE Field(_, _, _)
Field(w, lo, width) ==
    IF width = 0 THEN 0 ELSE Field(w, lo, width - 1) + w[lo + width - 1] * Pow2(width - 1)

\* device (63-56), command (55-48), payload bits 47-8 zero, payload bits 7-0
HasFields(w, device, command, low) ==
    /\ Field(w, 56, 8) = device
    /\ Field(w, 48, 8) = command
    /\ \A k \in 8..47 : w[k] = 0
    /\ Field(w, 0, 8) = low

RECURSIVE Count(_, _)
Count(log, kind) ==
    IF log = <<>> THEN 0
    ELSE (IF Head(log).kind = kind THEN Head(log).n ELSE 0) + Count(Tail(log), kind)

PastStore(c) == pc[c] \in {"loop", "after_write", "done"}

\* (1 << 56)
ReadRequest == WordOfBytes(<<1, 0, 0, 0, 0, 0, 0, 0>>)

\* C1: a call send_byte(b) writes tohost exactly once, and the word written
\* has device 1 in bits 63-56, command 1 in bits 55-48, zeros in bits 47-8
\* and b in bits 7-0; send_byte(0x41) writes 0x0101000000000041.
C1_SendByteWord ==
    \A c \in Callers :
        op[c] = "send_byte" =>
            /\ pc[c] = "write" => Count(acc[c], "write_tohost") = 0
            /\ PastStore(c) =>
                /\ Count(acc[c], "write_tohost") = 1
                /\ acc[c][1].kind = "write_tohost"
                /\ HasFields(acc[c][1].val, 1, 1, to_send[c])
                /\ tohost = acc[c][1].val
                /\ to_send[c] = 65 =>
                       acc[c][1].val = WordOfBytes(<<1, 1, 0, 0, 0, 0, 0, 65>>)
            /\ pc[c] = "done" => ret[c] = Ok(Unit)

C1_Witness ==
    \E c \in Callers :
        /\ op[c] = "send_byte" /\ pc[c] = "done" /\ to_send[c] = 200
        /\ Count(acc[c], "write_tohost") = 1

\* C2: a call read_byte() writes tohost exactly once, the word (1 << 56),
\* before it reads fromhost, and then reads fromhost exactly once.
C2_ReadByteAccesses ==
    \A c \in Callers :
        op[c] = "read_byte" =>
            /\ pc[c] = "write" => acc[c] = <<>>
            /\ PastStore(c) =>
                /\ Count(acc[c], "write_tohost") = 1
                /\ acc[c][1].kind = "write_tohost"
                /\ acc[c][1].val = ReadRequest
                /\ HasFields(acc[c][1].val, 1, 0, 0)
            /\ \A j \in 1..Len(acc[c]) :
                   acc[c][j].kind = "read_fromhost" =>
                       \E k \in 1..(j - 1) : acc[c][k].kind = "write_tohost"
            /\ pc[c] # "done" => Count(acc[c], "read_fromhost") = 0
            /\ pc[c] = "done" =>
                /\ Count(acc[c], "read_fromhost") = 1
                /\ acc[c][Len(acc[c])].kind = "read_fromhost"

C2_Witness ==
    \E c \in Callers :
        /\ op[c] = "read_byte" /\ pc[c] = "done"
        /\ Count(acc[c], "read_fromhost") = 1
        /\ last.op = "read_byte" /\ gap.op = "send_byte"

\* C3: read_byte() returns the low eight bits of the value fromhost held
\* when it was read; the bits 63-8 of that value do not matter.
C3_ReadByteLowBits ==
    \A c \in Callers :
        op[c] = "read_byte" /\ pc[c] = "done" =>
            LET v == acc[c][Len(acc[c])].val
            IN  /\ ret[c] = Ok(Num(Field(v, 0, 8)))
                /\ \A w \in RespWords :
                       (\A k \in 0..7 : w[k] = v[k]) => ret[c] = ReadByteResult(w)

C3_Witness ==
    \E c \in Callers :
        /\ op[c] = "read_byte" /\ pc[c] = "done"
        /\ ret[c] = Ok(Num(88))
        /\ \E k \in 8..63 : acc[c][Len(acc[c])].val[k] = 1

\* C4 as claimed: send_byte(0xFF) writes 0x0101FF0000000000.
C4_Original ==
    \A c \in Callers :
        op[c] = "send_byte" /\ to_send[c] = 255 /\ PastStore(c) =>
            acc[c][1].val = WordOfBytes(<<1, 1, 255, 0, 0, 0, 0, 0>>)

\* C4 amended: send_byte(0xFF) writes 0x01010000000000FF to tohost: the byte
\* is in bits 7-0 and the payload bits 47-8 are zero.
C4_SendByteFF ==
    \A c \in Callers :
        op[c] = "send_byte" /\ to_send[c] = 255 /\ PastStore(c) =>
            /\ acc[c][1].kind = "write_tohost"
            /\ acc[c][1].val = WordOfBytes(<<1, 1, 0, 0, 0, 0, 0, 255>>)
            /\ tohost = WordOfBytes(<<1, 1, 0, 0, 0, 0, 0, 255>>)

C4_Witness ==
    \E c \in Callers :
        /\ op[c] = "send_byte" /\ to_send[c] = 255 /\ pc[c] = "done"
        /\ tohost = acc[c][1].val

\* C5: with calls serialized, a read-character request is followed by
\* exactly one read of fromhost before the next request is written, and a
\* write-character request by none: send_byte never reads fromhost.
C5_OneResponsePerRead ==
    /\ gap.op = "read_byte" => gap.reads = 1
    /\ gap.op = "send_byte" => gap.reads = 0
    /\ last.op = "read_byte" => sinceWrite <= 1
    /\ last.op = "send_byte" => sinceWrite = 0
    /\ \A c \in Callers :
           /\ op[c] = "send_byte" => Count(acc[c], "read_fromhost") = 0
           /\ op[c] = "read_byte" /\ pc[c] = "done" => sinceWrite = 1

C5_Witness ==
    /\ gap.op = "read_byte" /\ gap.reads = 1
    /\ last.op = "send_byte" /\ sinceWrite = 0
    /\ \E c \in Callers : op[c] = "send_byte" /\ pc[c] = "done"

\* C6: with calls serialized, when read_byte reads fromhost the last word
\* written to tohost is the read request of that very call.  Without
\* serialization nothing stops a second caller's write in between (the
\* witness is such a state, and the call returns Ok all the same).
C6_SerializedReadSeesOwnRequest ==
    serialized =>
        \A c \in Callers :
            op[c] = "read_byte" /\ pc[c] = "done" =>
                /\ reqAtRead[c].by = c
                /\ reqAtRead[c].word = ReadRequest

C6_Witness ==
    /\ ~serialized
    /\ \E c \in Callers :
           /\ op[c] = "read_byte" /\ pc[c] = "done"
           /\ reqAtRead[c].by \in Callers \ {c}
           /\ reqAtRead[c].word # ReadRequest
           /\ HasFields(reqAtRead[c].word, 1, 1, 65)
           /\ ret[c].tag = "Ok"

\* the register accesses and the result of a complete call, as a function of
\* the method, its argument and the value v that fromhost held when read
DelayReads == [kind |-> "read_tohost", n |-> DELAY_LOOP_END, val |-> ZeroWord]

Outcome(o, b, v) ==
    CASE o = "send_byte" ->
           [acc |-> <<[kind |-> "write_tohost", n |-> 1, val |-> SendByteWord(b)],
                      DelayReads>>,
            ret |-> Ok(Unit)]
      [] o = "read_byte" ->
           [acc |-> <<[kind |-> "write_tohost", n |-> 1, val |-> ReadByteWord],
                      DelayReads,
                      [kind |-> "read_fromhost", n |-> 1, val |-> v]>>,
            ret |-> Ok(Num(Field(v, 0, 8)))]
      [] o = "size" -> [acc |-> <<>>, ret |-> Plain(Num(16))]
      [] OTHER -> [acc |-> <<>>, ret |-> Ok(HTIF)]

\* C7: calls are independent transactions: whatever calls came before, the
\* register accesses and the result of a complete call are those fixed by
\* its method, its argument and the value of fromhost at its read alone;
\* the handle has no fields, and no call changes it.
C7_CallsIndependent ==
    \A c \in Callers :
        /\ DOMAIN htif[c] = {}
        /\ pc[c] = "done" =>
               \E v \in RespWords :
                   [acc |-> acc[c], ret |-> ret[c]] = Outcome(op[c], to_send[c], v)

C7_Witness ==
    \E c \in Callers :
        /\ pc[c] = "done" /\ op[c] = "send_byte" /\ to_send[c] = 65
        /\ gap.op = "send_byte"
        /\ [acc |-> acc[c], ret |-> ret[c]] = Outcome("send_byte", 65, ZeroWord)

\* C8: every call of send_byte and of read_byte returns Ok; no call returns
\* Err, and Fault has the single member Success.
C8_AlwaysOk ==
    /\ Cardinality(Fault) = 1
    /\ \A c \in Callers :
           /\ ret[c].tag # "Err"
           /\ pc[c] = "done" /\ op[c] \in {"send_byte", "read_byte", "new"} =>
                  ret[c].tag = "Ok"

C8_Witness ==
    /\ \E c \in Callers :
           pc[c] = "done" /\ op[c] = "read_byte" /\ ret[c].tag = "Ok"
    /\ gap.op = "read_byte"

\* the calls of new and size that are complete are as the methods promise
C9_Results ==
    \A c \in Callers :
        /\ pc[c] = "done" /\ op[c] = "new" =>
               ret[c] = Ok(HTIF) /\ acc[c] = <<>>
        /\ pc[c] = "done" /\ op[c] = "size" =>
               ret[c] = Plain(Num(16)) /\ acc[c] = <<>>

\* a step that is a call of new or size leaves the registers as they are
C9_NoAccess ==
    \A c \in Callers :
        pc[c] = "idle" /\ pc'[c] = "done" /\ op'[c] \in {"new", "size"} =>
            /\ tohost' = tohost /\ fromhost' = fromhost
            /\ last' = last /\ sinceWrite' = sinceWrite

\* C9: new() succeeds and size() returns 16, after any calls, and neither
\* reads or writes tohost or fromhost.
C9_NewAndSize == [](C9_Results) /\ [][C9_NoAccess]_vars

C9_Witness ==
    \E c \in Callers :
        /\ pc[c] = "done" /\ op[c] = "size" /\ ret[c] = Plain(Num(16))
        /\ last.op = "read_byte" /\ gap.op = "send_byte"

\* the accesses of a request so far: the store first, then the delay loop's
\* reads of tohost, 100 of them once write_to_host has returned, and only
\* then read_byte's read of fromhost
HundredReads == [kind |-> "read_tohost", n |-> 100, val |-> ZeroWord]

C10_Shape(c) ==
    /\ pc[c] = "write" => acc[c] = <<>>
    /\ pc[c] = "loop" =>
           /\ i[c] = 0 => Len(acc[c]) = 1
           /\ i[c] > 0 => Len(acc[c]) = 2 /\ acc[c][2] = [HundredReads EXCEPT !.n = i[c]]
    /\ pc[c] = "after_write" => Len(acc[c]) = 2 /\ acc[c][2] = HundredReads
    /\ pc[c] = "done" =>
           /\ Len(acc[c]) = IF op[c] = "read_byte" THEN 3 ELSE 2
           /\ acc[c][2] = HundredReads
           /\ op[c] = "read_byte" => acc[c][3].kind = "read_fromhost"
    /\ PastStore(c) =>
           /\ acc[c][1] = [kind |-> "write_tohost", n |-> 1, val |-> val[c]]
           /\ Count(acc[c], "write_tohost") = 1
           /\ Count(acc[c], "read_tohost") <= 100
           /\ Count(acc[c], "read_fromhost") = IF pc[c] = "done" /\ op[c] = "read_byte" THEN 1 ELSE 0
    /\ pc[c] \in {"loop", "after_write"} => tohost = acc[c][1].val

\* C10: every request is one write of the request word to tohost followed
\* by exactly 100 reads of tohost; the read of fromhost and the return come
\* after all 100, and every call started comes to its end.
C10_WriteThenDelay ==
    /\ [](\A c \in Callers : op[c] \in {"send_byte", "read_byte"} => C10_Shape(c))
    /\ \A c \in Callers : (pc[c] = "write") ~> (pc[c] = "done")

C10_Witness ==
    \E c \in Callers :
        /\ pc[c] = "done" /\ op[c] = "read_byte"
        /\ Count(acc[c], "read_tohost") = 100
        /\ Len(acc[c]) = 3

====
